---- MODULE Spec2Model ----
(***************************************************************************)
(* Call-intake backend of the AI-autoshop voice service: the inbound-call  *)
(* route, the call-started and call-ended webhooks, the call-ended         *)
(* transaction (processCallEnded / createBooking) and the rows they write. *)
(*                                                                         *)
(* The database is modelled as its committed tables plus, per call-ended   *)
(* processing, the writes of its open transaction (READ COMMITTED: a       *)
(* statement sees the committed rows and the transaction's own writes; an  *)
(* UPDATE of a row another open transaction has updated waits for it).     *)
(* A row inserted by processing p carries the id p: the database hands out *)
(* a fresh id per INSERT and each processing inserts at most one row per   *)
(* table, so the inserting processing identifies the row.                  *)
(***************************************************************************)
EXTENDS Integers, Sequences, FiniteSets, TLC

\* ------------------------------------------------------------------ bounds
MaxProcs == 2       \* call-ended webhook deliveries in one run
MaxCalls == 2       \* Call rows the inbound endpoint may insert

\* --------------------------------------------------------------- constants
NullId == 0                 \* SQL NULL in an id column (vehicleId = null)
Undefined == "undefined"    \* a field absent from the JSON payload
Null == "null"              \* SQL NULL in a timestamp column
NowTs == "now"              \* the value NOW() stores
MaxAge == 300               \* seconds a webhook timestamp may be off
Now == 1000                 \* Math.floor(Date.now() / 1000) at verification
Secret == "secret"          \* process.env.VAPI_WEBHOOK_SECRET
PoolMax == 20               \* max: the clients the pool hands out at a time

Procs == 1..MaxProcs
CallIdsIn == 1..(MaxCalls + 1)   \* metadata.call_id; MaxCalls + 1 is never a Call row
WorkshopIds == {1, 2}            \* metadata.workshop_id

\* The workshops table: no code under src/ writes it.
Workshops ==
  { [id |-> 1, number |-> "+100", status |-> "active"],
    [id |-> 2, number |-> "+200", status |-> "inactive"] }

DialedNumbers == {"+100", "+200", "+300", Undefined}

\* JavaScript truthiness of a string-or-absent field.
Truthy(v) == v # Undefined /\ v # ""

\* analysis.structuredData as the extraction schema declares it
\* (booking_confirmed: boolean; an absent flag is falsy like false;
\* has_vehicle: vehicle_make and vehicle_model are both present). The phone
\* and the vehicle, which createBooking alone reads, vary only in the
\* payloads that reach it.
StructuredData ==
  { sd \in [ booking_confirmed : BOOLEAN,
             customer_name     : {Undefined, "", "Ann"},
             customer_phone    : {Undefined, "555"},
             has_vehicle       : BOOLEAN ] :
      \/ sd.booking_confirmed /\ Truthy(sd.customer_name)
      \/ sd.customer_phone = Undefined /\ ~sd.has_vehicle }

VARIABLES
  production,    \* process.env.NODE_ENV === 'production'
  calls,         \* committed calls table: row id -> row
  analyses,      \* committed call_analysis rows
  customers,     \* committed customers rows
  vehicles,      \* committed vehicles rows
  bookings,      \* committed bookings rows
  notifications, \* POSTs issued to the booking-notification service
  pc,            \* position of each call-ended request
  req,           \* the arguments processCallEnded was called with
  tx,            \* the open transaction's writes and createBooking's locals
  outcome,       \* how the processing ended: none, rejected, committed, failed
  responses,     \* res.status(200).json calls made on each call-ended request
  answer,        \* the HTTP response each call-ended request was given
  client,        \* the pooled client of each processCallEnded invocation
  last,          \* the HTTP response of the last inbound / call-started request
  returned       \* the last direct call of a pure function: arguments and value

vars == <<production, calls, analyses, customers, vehicles, bookings,
          notifications, pc, req, tx, outcome, responses, answer, client,
          last, returned>>

db == <<calls, analyses, customers, vehicles, bookings>>
procVars == <<pc, req, tx, outcome, responses, answer, client>>

\* ------------------------------------------------------ signature verifier
\* An x-vapi-timestamp header: a string, which the subtraction now - timestamp
\* converts to a number; a string that is no numeral converts to NaN.
Numeral(n) == [numeric |-> TRUE, n |-> n]
NotNumeral == [numeric |-> FALSE, n |-> 0]

Timestamps ==
  {Numeral(t) : t \in {Now, Now - MaxAge, Now - MaxAge - 1, Now + MaxAge,
                        Now + MaxAge + 1}} \cup {NotNumeral}

\* HMAC-SHA256 as a perfect keyed hash: the digest of (key, payload) is the
\* term itself, so two digests are equal exactly when key and payload are.
Hmac(key, payload) == [key |-> key, payload |-> payload]

\* timestamp + '.' + JSON.stringify(req.body)
SignedPayload(timestamp, body) == <<timestamp, body>>

\* The x-vapi-signature / x-vapi-timestamp headers of a request whose body is
\* "sent"; a signature may have been made with another key, for another
\* timestamp or over another body.
Signatures ==
  { Hmac(k, SignedPayload(t, b)) :
      k \in {Secret, "forged"},
      t \in {Numeral(Now), Numeral(Now - MaxAge - 1), NotNumeral},
      b \in {"sent", "other"} }

Headers ==
  [ hasSignature : BOOLEAN, hasTimestamp : BOOLEAN,
    timestamp : Timestamps, signature : Signatures ]

Abs(x) == IF x < 0 THEN -x ELSE x

\* Math.abs(now - timestamp) > 300: every comparison with NaN is false.
TooOld(timestamp) == timestamp.numeric /\ Abs(Now - timestamp.n) > MaxAge

\* verifyVapiSignature: "" when it returns true, else the message it throws.
verifyVapiSignature(hdr) ==
  IF ~hdr.hasSignature \/ ~hdr.hasTimestamp
    THEN "Missing signature or timestamp"
  ELSE IF TooOld(hdr.timestamp)
    THEN "Webhook timestamp too old"
  ELSE IF hdr.signature # Hmac(Secret, SignedPayload(hdr.timestamp, "sent"))
    THEN "Invalid signature"
  ELSE ""

\* What verification can answer.
VerifyOutcomes ==
  {"", "Missing signature or timestamp", "Webhook timestamp too old",
   "Invalid signature"}

\* The headers the webhooks are sent with: a handler sees of them only what
\* verification answers, so one request per answer.
WebhookHeaders ==
  {CHOOSE h \in Headers : verifyVapiSignature(h) = e : e \in VerifyOutcomes}

\* A handler that never verifies.
SignatureError_Skipped(hdr) == ""

\* if (process.env.NODE_ENV === 'production') verifyVapiSignature(req)
SignatureError(hdr) == IF production THEN verifyVapiSignature(hdr) ELSE ""

\* A direct call of verifyVapiSignature.
Verify(hdr) ==
  /\ returned' = [fn |-> "verifyVapiSignature", args |-> <<hdr>>,
                  value |-> verifyVapiSignature(hdr)]
  /\ UNCHANGED <<production, db, notifications, procVars, last>>

\* ------------------------------------------------------------------- Init
NoReq == [callId |-> NullId, workshopId |-> NullId, duration |-> NullId,
          sd |-> [booking_confirmed |-> FALSE, customer_name |-> Undefined,
                  customer_phone |-> Undefined, has_vehicle |-> FALSE]]

NoTx == [call |-> FALSE, analyses |-> {}, customers |-> {}, vehicles |-> {},
         bookings |-> {}, marked |-> {}, customerId |-> NullId,
         vehicleId |-> NullId]

\* A response: its status code and whether its body carries an error field.
Response(status, error) == [status |-> status, error |-> error]

NoResponse == Response(NullId, FALSE)

\* The pooled client of an invocation: whether pool.connect() gave one, the
\* client.release() calls made on it, and the COMMIT or ROLLBACK statements
\* sent on it (a COMMIT counts when it succeeds, a ROLLBACK when it is sent).
NoClient == [acquired |-> FALSE, released |-> 0, ended |-> 0]

\* No pure function has been called directly.
NoCall == [fn |-> "none", args |-> <<>>, value |-> <<>>]

Init ==
  /\ production \in BOOLEAN
  /\ calls = <<>>
  /\ analyses = {}
  /\ customers = {}
  /\ vehicles = {}
  /\ bookings = {}
  /\ notifications = {}
  /\ pc = [p \in Procs |-> "idle"]
  /\ req = [p \in Procs |-> NoReq]
  /\ tx = [p \in Procs |-> NoTx]
  /\ outcome = [p \in Procs |-> "none"]
  /\ responses = [p \in Procs |-> 0]
  /\ answer = [p \in Procs |-> NoResponse]
  /\ client = [p \in Procs |-> NoClient]
  /\ last = NoResponse
  /\ returned = NoCall

\* ------------------------------------------------------- POST /inbound
\* The lookup without its status condition.
ActiveWorkshops_AnyStatus(toNumber) ==
  {w \in Workshops : w.number = toNumber}

\* SELECT w.* FROM workshops w WHERE w.vapi_phone_number = $1 AND w.status = 'active'
ActiveWorkshops(toNumber) ==
  {w \in Workshops : w.number = toNumber /\ w.status = "active"}

\* The Call row the inbound endpoint inserts.
NewCall(workshop) ==
  [workshop_id |-> workshop.id, status |-> "initiated",
   answered_at |-> Null, ended_at |-> Null, duration_seconds |-> NullId]

\* One inbound request: the workshop lookup, the insert and the response.
\* fail names the statement the database refuses, if any; a request without
\* a body throws at the destructuring.
Inbound(hasBody, toNumber, fail) ==
  LET rows == ActiveWorkshops(toNumber) IN
  /\ UNCHANGED <<production, returned, analyses, customers, vehicles, bookings,
                 notifications, procVars>>
  /\ IF ~hasBody \/ fail = "select"
       THEN /\ calls' = calls
            /\ last' = Response(500, TRUE)
     ELSE IF rows = {}
       THEN /\ calls' = calls
            /\ last' = Response(404, TRUE)
     ELSE IF fail = "insert"
       THEN /\ calls' = calls
            /\ last' = Response(500, TRUE)
     ELSE /\ Len(calls) < MaxCalls
          /\ calls' = Append(calls, NewCall(CHOOSE w \in rows : TRUE))
          /\ last' = Response(200, FALSE)

\* ------------------------------------------------ row locks on calls
\* An open transaction that has updated Call row id holds its row lock until
\* it commits or rolls back.
CallLocked(id) == \E q \in Procs : tx[q].call /\ req[q].callId = id

\* --------------------------------------------- POST /vapi/call-started
\* UPDATE calls SET status = 'in-progress', answered_at = NOW() WHERE id = $1
CallStartedUpdate(rows, callId) ==
  [i \in DOMAIN rows |->
     IF i = callId
       THEN [rows[i] EXCEPT !.status = "in-progress", !.answered_at = NowTs]
       ELSE rows[i]]

\* A handler that surfaces its failures.
CallStartedStatus_Surfaced(error) == IF error = "" THEN 200 ELSE 500

\* Every path of the handler ends in res.status(200).
CallStartedStatus(error) == 200

\* One call-started request. The handler awaits one statement, so the request
\* is one step; it waits while the row is locked by an open transaction.
CallStarted(hdr, hasMetadata, callId, dbFails) ==
  LET error == IF SignatureError(hdr) # "" THEN SignatureError(hdr)
               ELSE IF ~hasMetadata THEN "Cannot read properties of undefined"
               ELSE IF dbFails THEN "database error"
               ELSE ""
  IN
  /\ (error = "" /\ callId \in DOMAIN calls) => ~CallLocked(callId)
  /\ calls' = IF error = "" THEN CallStartedUpdate(calls, callId) ELSE calls
  /\ last' = Response(CallStartedStatus(error), error # "")
  /\ UNCHANGED <<production, returned, analyses, customers, vehicles, bookings,
                 notifications, procVars>>

\* ----------------------------------------------- POST /vapi/call-ended
Durations == {30}    \* call.duration, in seconds

\* The bodies a call-ended request may carry: metadata and call may be
\* missing; an absent analysis gives structuredData = {} (every field absent).
\* metadata.workshop_id is read by createBooking alone.
CallEndedBodies ==
  { b \in [ hasMetadata : BOOLEAN, hasCall : BOOLEAN, callId : CallIdsIn,
            workshopId : WorkshopIds, duration : Durations, sd : StructuredData ] :
      (b.sd.booking_confirmed /\ Truthy(b.sd.customer_name)) \/ b.workshopId = 1 }

\* A handler that answers only once processing is over.
ResponsesAfterAck_Late(n) == n

\* res.status(200).json({ received: true }) before processCallEnded is called
ResponsesAfterAck(n) == n + 1

\* The handler up to its first await: verification, destructuring, the
\* acknowledgment, and the arguments of processCallEnded. Requests take the
\* slots in order.
CallEndedAccept(p, hdr, body) ==
  /\ pc[p] = "idle"
  /\ \A q \in Procs : q < p => pc[q] # "idle"
  /\ IF SignatureError(hdr) # "" \/ ~body.hasMetadata
       THEN \* thrown before the acknowledgment: the catch block responds
            /\ responses' = [responses EXCEPT ![p] = @ + 1]
            /\ answer' = [answer EXCEPT ![p] = Response(200, TRUE)]
            /\ outcome' = [outcome EXCEPT ![p] = "rejected"]
            /\ pc' = [pc EXCEPT ![p] = "done"]
            /\ req' = req
     ELSE IF ~body.hasCall
       THEN \* call.id throws after the acknowledgment
            /\ responses' = [responses EXCEPT ![p] = ResponsesAfterAck(@)]
            /\ answer' = [answer EXCEPT ![p] = Response(200, FALSE)]
            /\ outcome' = [outcome EXCEPT ![p] = "failed"]
            /\ pc' = [pc EXCEPT ![p] = "handlerCatch"]
            /\ req' = req
     ELSE /\ responses' = [responses EXCEPT ![p] = ResponsesAfterAck(@)]
          /\ answer' = [answer EXCEPT ![p] = Response(200, FALSE)]
          /\ outcome' = outcome
          /\ pc' = [pc EXCEPT ![p] = "getClient"]
          /\ req' = [req EXCEPT ![p] = [callId |-> body.callId,
                                        workshopId |-> body.workshopId,
                                        duration |-> body.duration,
                                        sd |-> body.sd]]
  /\ UNCHANGED <<production, returned, db, notifications, tx, client, last>>

\* The handler's catch block after the acknowledgment: one more
\* res.status(200).json call on the same response. The headers of the
\* acknowledgment are sent, so the call throws and the caller keeps the
\* answer it has.
HandlerCatch(p) ==
  /\ pc[p] = "handlerCatch"
  /\ responses' = [responses EXCEPT ![p] = @ + 1]
  /\ answer' = [answer EXCEPT ![p] = IF responses[p] = 0
                                       THEN Response(200, TRUE) ELSE @]
  /\ pc' = [pc EXCEPT ![p] = "done"]
  /\ UNCHANGED <<production, returned, db, notifications, req, tx, outcome,
                 client, last>>

\* ------------------------------------------------------ processCallEnded
\* The clients of the pool that are checked out.
CheckedOut ==
  Cardinality({q \in Procs : client[q].acquired /\ client[q].released = 0})

\* const client = await getClient(): pool.connect() gives a client while
\* fewer than max are checked out; a failure (a connection timeout while it
\* waits, a refused connection) is thrown to the handler.
GetClient(p, ok) ==
  /\ pc[p] = "getClient"
  /\ ok => CheckedOut < PoolMax
  /\ client' = [client EXCEPT ![p].acquired = ok]
  /\ pc' = [pc EXCEPT ![p] = IF ok THEN "begin" ELSE "handlerCatch"]
  /\ outcome' = [outcome EXCEPT ![p] = IF ok THEN @ ELSE "failed"]
  /\ req' = [req EXCEPT ![p] = IF ok THEN @ ELSE NoReq]
  /\ UNCHANGED <<production, returned, db, notifications, tx, responses,
                 answer, last>>

\* await client.query('BEGIN')
Begin(p) ==
  /\ pc[p] = "begin"
  /\ pc' = [pc EXCEPT ![p] = "updateCall"]
  /\ UNCHANGED <<production, returned, db, notifications, req, tx, outcome,
                 responses, answer, client, last>>

\* SET status = 'completed', ended_at = NOW(), duration_seconds = $2, ...
CompletedCall(row, duration) ==
  [row EXCEPT !.status = "completed", !.ended_at = NowTs,
              !.duration_seconds = duration]

\* The same statement sent through the pool's query helper, which commits it
\* on its own.
UpdateCall_Autocommit(p) ==
  /\ pc[p] = "updateCall"
  /\ ~CallLocked(req[p].callId)
  /\ calls' = [i \in DOMAIN calls |->
                 IF i = req[p].callId THEN CompletedCall(calls[i], req[p].duration)
                 ELSE calls[i]]
  /\ pc' = [pc EXCEPT ![p] = "insertAnalysis"]
  /\ UNCHANGED <<production, returned, analyses, customers, vehicles, bookings,
                 notifications, req, tx, outcome, responses, answer, client, last>>

\* 1. UPDATE calls SET ... WHERE id = $6, inside the transaction. It matches
\* the row when it exists and waits while another transaction holds its lock.
UpdateCall(p) ==
  /\ pc[p] = "updateCall"
  /\ ~CallLocked(req[p].callId)
  /\ tx' = [tx EXCEPT ![p].call = req[p].callId \in DOMAIN calls]
  /\ pc' = [pc EXCEPT ![p] = "insertAnalysis"]
  /\ UNCHANGED <<production, returned, db, notifications, req, outcome,
                 responses, answer, client, last>>

\* if (structuredData.booking_confirmed && structuredData.customer_name)
BookingWanted_FlagOnly(sd) == sd.booking_confirmed

BookingWanted(sd) == sd.booking_confirmed /\ Truthy(sd.customer_name)

\* 2. INSERT INTO call_analysis (...): booking_created is given
\* structuredData.booking_confirmed || false. The columns that copy the
\* payload and that no statement reads again are left out.
NewAnalysis(p) ==
  [id |-> p, call_id |-> req[p].callId,
   booking_created |-> req[p].sd.booking_confirmed]

InsertAnalysis(p) ==
  /\ pc[p] = "insertAnalysis"
  /\ tx' = [tx EXCEPT ![p].analyses = @ \cup {NewAnalysis(p)}]
  /\ pc' = [pc EXCEPT ![p] = IF BookingWanted(req[p].sd) THEN "selectCustomer"
                             ELSE "commit"]
  /\ UNCHANGED <<production, returned, db, notifications, req, outcome,
                 responses, answer, client, last>>

\* --------------------------------------------------------- createBooking
\* What the transaction of p reads from customers: the committed rows and
\* its own inserts.
CustomersSeen(p) == customers \cup tx[p].customers

\* A lookup that never finds a row.
CustomerRows_None(p) == {}

\* SELECT * FROM customers WHERE workshop_id = $1 AND phone = $2
\* (an absent phone is bound as NULL, and phone = NULL matches no row).
CustomerRows(p) ==
  {c \in CustomersSeen(p) :
     /\ c.workshop_id = req[p].workshopId
     /\ req[p].sd.customer_phone # Undefined
     /\ c.phone = req[p].sd.customer_phone}

AfterCustomer(p) == IF req[p].sd.has_vehicle THEN "insertVehicle" ELSE "insertBooking"

\* 1. Find the customer: customerResult.rows[0] when a row matched.
SelectCustomer(p) ==
  /\ pc[p] = "selectCustomer"
  /\ IF CustomerRows(p) = {}
       THEN /\ pc' = [pc EXCEPT ![p] = "insertCustomer"]
            /\ tx' = tx
       ELSE \E c \in CustomerRows(p) :
              /\ tx' = [tx EXCEPT ![p].customerId = c.id]
              /\ pc' = [pc EXCEPT ![p] = AfterCustomer(p)]
  /\ UNCHANGED <<production, returned, db, notifications, req, outcome,
                 responses, answer, client, last>>

\* INSERT INTO customers (workshop_id, name, phone, email) ... RETURNING id
InsertCustomer(p) ==
  /\ pc[p] = "insertCustomer"
  /\ tx' = [tx EXCEPT ![p].customers = @ \cup
                        {[id |-> p, workshop_id |-> req[p].workshopId,
                          name |-> req[p].sd.customer_name,
                          phone |-> req[p].sd.customer_phone]},
                      ![p].customerId = p]
  /\ pc' = [pc EXCEPT ![p] = AfterCustomer(p)]
  /\ UNCHANGED <<production, returned, db, notifications, req, outcome,
                 responses, answer, client, last>>

\* 2. if (vehicleMake && vehicleModel) INSERT INTO vehicles ... RETURNING id
InsertVehicle(p) ==
  /\ pc[p] = "insertVehicle"
  /\ tx' = [tx EXCEPT ![p].vehicles = @ \cup
                        {[id |-> p, customer_id |-> tx[p].customerId]},
                      ![p].vehicleId = p]
  /\ pc' = [pc EXCEPT ![p] = "insertBooking"]
  /\ UNCHANGED <<production, returned, db, notifications, req, outcome,
                 responses, answer, client, last>>

\* 4. INSERT INTO bookings (...) RETURNING *
InsertBooking(p) ==
  /\ pc[p] = "insertBooking"
  /\ tx' = [tx EXCEPT ![p].bookings = @ \cup
                        {[id |-> p, workshop_id |-> req[p].workshopId,
                          customer_id |-> tx[p].customerId,
                          vehicle_id |-> tx[p].vehicleId,
                          call_id |-> req[p].callId,
                          status |-> "confirmed"]}]
  /\ pc' = [pc EXCEPT ![p] = "markAnalysis"]
  /\ UNCHANGED <<production, returned, db, notifications, req, outcome,
                 responses, answer, client, last>>

\* The committed call_analysis rows of the call of p.
AnalysesOfCall(p) == {a \in analyses : a.call_id = req[p].callId}

\* 5. UPDATE call_analysis SET booking_created = true WHERE call_id = $1:
\* the transaction's own row and every committed row of the call; it waits
\* while another open transaction has updated one of those.
MarkAnalysis(p) ==
  /\ pc[p] = "markAnalysis"
  /\ \A q \in Procs \ {p} :
       tx[q].marked \cap {a.id : a \in AnalysesOfCall(p)} = {}
  /\ tx' = [tx EXCEPT
              ![p].analyses = {IF a.call_id = req[p].callId
                                 THEN [a EXCEPT !.booking_created = TRUE]
                                 ELSE a : a \in @},
              ![p].marked = @ \cup {a.id : a \in AnalysesOfCall(p)}]
  /\ pc' = [pc EXCEPT ![p] = "notify"]
  /\ UNCHANGED <<production, returned, db, notifications, req, outcome,
                 responses, answer, client, last>>

\* A notification step without its own try/catch: a failed POST is thrown to
\* processCallEnded.
Notify_Propagates(p, delivered) ==
  /\ pc[p] = "notify"
  /\ notifications' = notifications \cup
       {[booking_id |-> p, workshop_id |-> req[p].workshopId,
         customer_id |-> tx[p].customerId, delivered |-> delivered]}
  /\ pc' = [pc EXCEPT ![p] = IF delivered THEN "commit" ELSE "rollback"]
  /\ outcome' = [outcome EXCEPT ![p] = IF delivered THEN @ ELSE "failed"]
  /\ UNCHANGED <<production, returned, db, req, tx, responses, answer, client,
                 last>>

\* 6. axios.post(.../api/bookings/notify, {bookingId, workshopId, customerId,
\* ...}); a failure is caught and logged.
Notify(p, delivered) ==
  /\ pc[p] = "notify"
  /\ notifications' = notifications \cup
       {[booking_id |-> p, workshop_id |-> req[p].workshopId,
         customer_id |-> tx[p].customerId, delivered |-> delivered]}
  /\ pc' = [pc EXCEPT ![p] = "commit"]
  /\ UNCHANGED <<production, returned, db, req, tx, outcome, responses,
                 answer, client, last>>

\* ---------------------------------------------------------- parseDateTime
\* A preferred_date / preferred_time value of the payload: absent, a string
\* (its characters) or a value of another type, such as a number.
Absent == [kind |-> "absent", chars |-> <<>>]
String(chars) == [kind |-> "string", chars |-> chars]
NotString == [kind |-> "number", chars |-> <<>>]

\* !value: absent and the empty string are falsy.
Falsy(v) == v.kind = "absent" \/ (v.kind = "string" /\ v.chars = <<>>)

Digits ==
  ("0" :> 0) @@ ("1" :> 1) @@ ("2" :> 2) @@ ("3" :> 3) @@ ("4" :> 4) @@
  ("5" :> 5) @@ ("6" :> 6) @@ ("7" :> 7) @@ ("8" :> 8) @@ ("9" :> 9)

\* \d at position i of a string.
IsDigit(chars, i) == i \in DOMAIN chars /\ chars[i] \in DOMAIN Digits

\* parseInt of the two-digit or one-digit numeral at i.
TwoDigits(chars, i) == 10 * Digits[chars[i]] + Digits[chars[i + 1]]
OneDigit(chars, i) == Digits[chars[i]]

\* toLowerCase, on the letters the inputs use.
LowerCase == ("A" :> "a") @@ ("M" :> "m") @@ ("P" :> "p") @@ ("T" :> "t")
ToLowerCase(chars) ==
  [i \in DOMAIN chars |->
     IF chars[i] \in DOMAIN LowerCase THEN LowerCase[chars[i]] ELSE chars[i]]

\* A Date: Invalid Date, or a local day, hour and minute. The day is plus
\* days after today, or after the calendar date <<year, month, day>>.
InvalidDate == [valid |-> FALSE, iso |-> <<>>, plus |-> 0, hour |-> 0, minute |-> 0]
DateOn(iso, plus, hour, minute) ==
  [valid |-> TRUE, iso |-> iso, plus |-> plus, hour |-> hour, minute |-> minute]

\* date.match(/^\d{4}-\d{2}-\d{2}$/)
IsIsoShape(chars) ==
  /\ Len(chars) = 10
  /\ chars[5] = "-" /\ chars[8] = "-"
  /\ \A i \in {1, 2, 3, 4, 6, 7, 9, 10} : IsDigit(chars, i)

\* new Date("YYYY-MM-DD"): midnight UTC of that date, which west of UTC is
\* the evening of the day before in local time; Invalid Date when the month
\* or the day is out of range. (A day past the end of a month it is within
\* 1..31 for is not distinguished here.)
NewDateIso(chars, westOfUtc) ==
  LET year == 100 * TwoDigits(chars, 1) + TwoDigits(chars, 3)
      month == TwoDigits(chars, 6)
      day == TwoDigits(chars, 9)
  IN IF month \in 1..12 /\ day \in 1..31
       THEN DateOn(<<year, month, day>>, IF westOfUtc THEN -1 ELSE 0, 0, 0)
       ELSE InvalidDate

\* new Date(), and setDate(getDate() + 1) on it.
Today == DateOn(<<>>, 0, 0, 0)
Tomorrow == DateOn(<<>>, 1, 0, 0)

\* d.setHours(hour, minute, 0, 0): local time of day, with values past the
\* end of the hour or of the day carried over; Invalid Date stays invalid.
SetHours(d, hour, minute) ==
  LET total == 60 * hour + minute IN
  IF ~d.valid THEN InvalidDate
  ELSE DateOn(d.iso, d.plus + (total \div 1440), (total % 1440) \div 60,
              total % 60)

\* Where \s*(am|pm)? ends up after the minutes: the suffix group, or "" when
\* none follows the white space.
RECURSIVE SkipSpaces(_, _)
SkipSpaces(chars, i) ==
  IF i \in DOMAIN chars /\ chars[i] = " " THEN SkipSpaces(chars, i + 1) ELSE i

Suffix(chars, i) ==
  LET j == SkipSpaces(chars, i)
      low == ToLowerCase(chars)
  IN IF j + 1 \in DOMAIN chars /\ low[j] \in {"a", "p"} /\ low[j + 1] = "m"
       THEN IF low[j] = "a" THEN "am" ELSE "pm"
       ELSE ""

\* One attempt of (\d{1,2}):(\d{2})\s*(am|pm)? at position i: two digits
\* first, then one. minutesOptional makes the :MM group optional.
NoMatch == [found |-> FALSE, hour |-> 0, minute |-> 0, suffix |-> ""]
Matched(hour, minute, suffix) ==
  [found |-> TRUE, hour |-> hour, minute |-> minute, suffix |-> suffix]

MinutesAt(chars, i) ==
  i \in DOMAIN chars /\ chars[i] = ":" /\ IsDigit(chars, i + 1)
    /\ IsDigit(chars, i + 2)

MatchAt(chars, i, minutesOptional) ==
  IF IsDigit(chars, i) /\ IsDigit(chars, i + 1) /\ MinutesAt(chars, i + 2)
    THEN Matched(TwoDigits(chars, i), TwoDigits(chars, i + 3), Suffix(chars, i + 5))
  ELSE IF IsDigit(chars, i) /\ IsDigit(chars, i + 1) /\ minutesOptional
    THEN Matched(TwoDigits(chars, i), 0, Suffix(chars, i + 2))
  ELSE IF IsDigit(chars, i) /\ MinutesAt(chars, i + 1)
    THEN Matched(OneDigit(chars, i), TwoDigits(chars, i + 2), Suffix(chars, i + 4))
  ELSE IF IsDigit(chars, i) /\ minutesOptional
    THEN Matched(OneDigit(chars, i), 0, Suffix(chars, i + 1))
  ELSE NoMatch

\* String.prototype.match without the g flag: the leftmost match.
RECURSIVE MatchFrom(_, _, _)
MatchFrom(chars, i, minutesOptional) ==
  IF i > Len(chars) THEN NoMatch
  ELSE IF MatchAt(chars, i, minutesOptional).found
    THEN MatchAt(chars, i, minutesOptional)
  ELSE MatchFrom(chars, i + 1, minutesOptional)

\* The pattern with :MM optional, H(:MM)? (am|pm)?.
TimeMatch_MinutesOptional(chars) == MatchFrom(chars, 1, TRUE)

\* time.match(/(\d{1,2}):(\d{2})\s*(am|pm)?/i)
TimeMatch(chars) == MatchFrom(chars, 1, FALSE)

\* hour after the two 12-hour adjustments.
Hour24(m) ==
  IF m.suffix = "pm" /\ m.hour < 12 THEN m.hour + 12
  ELSE IF m.suffix = "am" /\ m.hour = 12 THEN 0
  ELSE m.hour

\* Tomorrow at 10:00: the answer for an absent date and of the catch block.
TomorrowAtTen == SetHours(Tomorrow, 10, 0)

\* parseDateTime(date, time). A date or a time that is truthy and no string
\* has no match method: the TypeError is caught.
parseDateTime(date, time, westOfUtc) ==
  IF Falsy(date) THEN TomorrowAtTen
  ELSE IF date.kind # "string" THEN TomorrowAtTen
  ELSE LET targetDate ==
             IF IsIsoShape(date.chars) THEN NewDateIso(date.chars, westOfUtc)
             ELSE IF ToLowerCase(date.chars) = <<"t","o","m","o","r","r","o","w">>
               THEN Tomorrow
             ELSE IF ToLowerCase(date.chars) = <<"t","o","d","a","y">>
               THEN Today
             ELSE Tomorrow
       IN IF Falsy(time) THEN SetHours(targetDate, 10, 0)
          ELSE IF time.kind # "string" THEN TomorrowAtTen
          ELSE LET timeMatch == TimeMatch(time.chars) IN
               IF timeMatch.found
                 THEN SetHours(targetDate, Hour24(timeMatch), timeMatch.minute)
                 ELSE SetHours(targetDate, 10, 0)

\* The preferred_date values of the payloads.
DateInputs ==
  { Absent, NotString, String(<<>>),
    String(<<"2","0","2","5","-","0","1","-","3","0">>),
    String(<<"2","0","2","5","-","1","3","-","0","1">>),
    String(<<"t","o","m","o","r","r","o","w">>),
    String(<<"T","o","m","o","r","r","o","w">>),
    String(<<"t","o","d","a","y">>),
    String(<<"M","o","n","d","a","y">>),
    String(<<"g","a","r","b","a","g","e">>) }

\* The preferred_time values of the payloads.
TimeInputs ==
  { Absent, NotString, String(<<>>),
    String(<<"2",":","3","0"," ","p","m">>),
    String(<<"9","a","m">>),
    String(<<"1","4",":","0","0">>),
    String(<<"g","a","r","b","a","g","e">>),
    String(<<"2","5",":","9","9">>),
    String(<<"1","2",":","0","5"," ","A","M">>),
    String(<<"1","2",":","3","0","p","m">>),
    String(<<"a","t"," ","3",":","1","5"," "," ","P","M">>),
    String(<<"9",":","0","5"," ","a","m">>),
    String(<<"1","1",":","4","5"," ","P","m">>) }

\* A direct call of parseDateTime, in a time zone west of UTC or not.
Parse(date, time, westOfUtc) ==
  /\ returned' = [fn |-> "parseDateTime", args |-> <<date, time, westOfUtc>>,
                  value |-> parseDateTime(date, time, westOfUtc)]
  /\ UNCHANGED <<production, db, notifications, procVars, last>>

\* ------------------------------------------- commit, failure, rollback
\* await client.query('COMMIT'): the writes of the transaction become the
\* committed rows.
Commit(p) ==
  /\ pc[p] = "commit"
  /\ calls' = [i \in DOMAIN calls |->
                 IF tx[p].call /\ i = req[p].callId
                   THEN CompletedCall(calls[i], req[p].duration)
                   ELSE calls[i]]
  /\ analyses' = {IF a.id \in tx[p].marked
                    THEN [a EXCEPT !.booking_created = TRUE]
                    ELSE a : a \in analyses} \cup tx[p].analyses
  /\ customers' = customers \cup tx[p].customers
  /\ vehicles' = vehicles \cup tx[p].vehicles
  /\ bookings' = bookings \cup tx[p].bookings
  /\ tx' = [tx EXCEPT ![p] = NoTx]
  /\ outcome' = [outcome EXCEPT ![p] = "committed"]
  /\ client' = [client EXCEPT ![p].ended = @ + 1]
  /\ pc' = [pc EXCEPT ![p] = "release"]
  /\ UNCHANGED <<production, returned, notifications, req, responses, answer,
                 last>>

\* The awaits that are database statements of the transaction.
StatementPcs ==
  {"begin", "updateCall", "insertAnalysis", "selectCustomer", "insertCustomer",
   "insertVehicle", "insertBooking", "markAnalysis", "commit"}

\* A statement is refused (constraint violation, lost connection, ...): the
\* error reaches the catch block of processCallEnded.
StatementFails(p) ==
  /\ pc[p] \in StatementPcs
  /\ outcome' = [outcome EXCEPT ![p] = "failed"]
  /\ pc' = [pc EXCEPT ![p] = "rollback"]
  /\ UNCHANGED <<production, returned, db, notifications, req, tx, responses,
                 answer, client, last>>

\* await client.query('ROLLBACK'): the writes of the transaction are dropped
\* (when the ROLLBACK itself fails the server aborts the transaction).
Rollback(p, ok) ==
  /\ pc[p] = "rollback"
  /\ tx' = [tx EXCEPT ![p] = NoTx]
  /\ client' = [client EXCEPT ![p].ended = @ + 1]
  /\ pc' = [pc EXCEPT ![p] = "release"]
  /\ UNCHANGED <<production, returned, db, notifications, req, outcome,
                 responses, answer, last>>

\* client.release() at the end of the try block instead of in finally: a
\* failed processing keeps its client.
Release_OnSuccessOnly(p) ==
  /\ pc[p] = "release"
  /\ pc' = [pc EXCEPT ![p] = IF outcome[p] = "committed" THEN "done"
                             ELSE "handlerCatch"]
  /\ req' = [req EXCEPT ![p] = NoReq]
  /\ client' = [client EXCEPT ![p].released =
                                IF outcome[p] = "committed" THEN @ + 1 ELSE @]
  /\ UNCHANGED <<production, returned, db, notifications, tx, outcome, responses,
                 answer, last>>

\* finally { client.release() }: processCallEnded returns, or rethrows to the
\* handler when it failed; its arguments are gone.
Release(p) ==
  /\ pc[p] = "release"
  /\ pc' = [pc EXCEPT ![p] = IF outcome[p] = "committed" THEN "done"
                             ELSE "handlerCatch"]
  /\ req' = [req EXCEPT ![p] = NoReq]
  /\ client' = [client EXCEPT ![p].released = @ + 1]
  /\ UNCHANGED <<production, returned, db, notifications, tx, outcome,
                 responses, answer, last>>

\* ------------------------------------------------------------------- Next
\* No call-ended request is being handled.
NoneInFlight == \A q \in Procs : pc[q] \in {"idle", "done"}

\* A header pair that passes verification.
ValidHeaders == {h \in WebhookHeaders : verifyVapiSignature(h) = ""}

\* Every inbound request.
InboundRequests ==
  \E hasBody \in BOOLEAN, n \in DialedNumbers, f \in {"none", "select", "insert"} :
    Inbound(hasBody, n, f)

\* Every call-started request.
CallStartedRequests ==
  \E hdr \in WebhookHeaders, m \in BOOLEAN, id \in CallIdsIn, f \in BOOLEAN :
    CallStarted(hdr, m, id, f)

\* The inbound and call-started requests that are well formed and meet no
\* failure; the others change no row.
CallSetup ==
  \/ Inbound(TRUE, "+100", "none")
  \/ \E hdr \in ValidHeaders, id \in CallIdsIn : CallStarted(hdr, TRUE, id, FALSE)

\* The steps of the call-ended requests that were accepted.
Processing ==
  \/ \E p \in Procs, ok \in BOOLEAN : GetClient(p, ok)
  \/ \E p \in Procs : Begin(p)
  \/ \E p \in Procs : UpdateCall(p)
  \/ \E p \in Procs : InsertAnalysis(p)
  \/ \E p \in Procs : SelectCustomer(p)
  \/ \E p \in Procs : InsertCustomer(p)
  \/ \E p \in Procs : InsertVehicle(p)
  \/ \E p \in Procs : InsertBooking(p)
  \/ \E p \in Procs : MarkAnalysis(p)
  \/ \E p \in Procs, d \in BOOLEAN : Notify(p, d)
  \/ \E p \in Procs : Commit(p)
  \/ \E p \in Procs : StatementFails(p)
  \/ \E p \in Procs, ok \in BOOLEAN : Rollback(p, ok)
  \/ \E p \in Procs : Release(p)
  \/ \E p \in Procs : HandlerCatch(p)

\* The platform delivers one call-ended webhook at a time (a redelivery
\* follows the end of the delivery before it), with any body; the calls are
\* set up and started at any moment.
Next ==
  \/ CallSetup
  \/ /\ NoneInFlight
     /\ \E p \in Procs, hdr \in WebhookHeaders, body \in CallEndedBodies :
          CallEndedAccept(p, hdr, body)
  \/ Processing

Spec == Init /\ [][Next]_vars

\* Call-ended webhooks for call 1 that confirm a booking, handled
\* concurrently: each request is its own task and nothing orders their awaits.
ConfirmedBodies ==
  {b \in CallEndedBodies :
     /\ b.hasMetadata /\ b.hasCall /\ b.callId = 1
     /\ b.sd.booking_confirmed /\ Truthy(b.sd.customer_name)
     /\ b.sd.has_vehicle = (b.sd.customer_phone # Undefined)}

ConcNext ==
  \/ Inbound(TRUE, "+100", "none")
  \/ \E p \in Procs, hdr \in ValidHeaders, body \in ConfirmedBodies :
       CallEndedAccept(p, hdr, body)
  \/ Processing

ConcSpec == Init /\ [][ConcNext]_vars

\* Every inbound and call-started request, well formed or not, failing or
\* not, around one call-ended webhook, verified or not: one with no analysis,
\* or one that confirms a booking with every field present.
PlainBodies ==
  {b \in CallEndedBodies :
     /\ b.hasMetadata /\ b.hasCall /\ b.workshopId = 1
     /\ b.sd.customer_name = (IF b.sd.booking_confirmed THEN "Ann" ELSE Undefined)
     /\ b.sd.customer_phone = (IF b.sd.booking_confirmed THEN "555" ELSE Undefined)
     /\ b.sd.has_vehicle = b.sd.booking_confirmed}

HttpNext ==
  \/ InboundRequests
  \/ CallStartedRequests
  \/ \E hdr \in WebhookHeaders, body \in PlainBodies : CallEndedAccept(1, hdr, body)
  \/ Processing

HttpSpec == Init /\ [][HttpNext]_vars

\* verifyVapiSignature called on every header pair.
VerifyNext == \E hdr \in Headers : Verify(hdr)

VerifySpec == Init /\ [][VerifyNext]_vars

\* parseDateTime called on every pair of a date and a time.
ParseNext ==
  \E date \in DateInputs, time \in TimeInputs, westOfUtc \in BOOLEAN :
    Parse(date, time, westOfUtc)

ParseSpec == Init /\ [][ParseNext]_vars

\* ================================================================ claims
\* The rows processing p inserted, committed.
RowsOf(p) ==
  {r \in analyses \cup customers \cup vehicles \cup bookings : r.id = p}

\* p takes a step.
StepOf(p) == pc'[p] # pc[p]

\* ------------------------------------------------------------------- C1
\* C1: call-ended processing is atomic. The committed tables change in a
\* step of a processing only when that step is its COMMIT and nothing has
\* failed in it; a processing in which a statement failed leaves no
\* CallAnalysis, Customer, Vehicle or Booking row of its own behind.
C1_Atomic ==
  /\ [](\A p \in Procs : outcome[p] = "failed" => RowsOf(p) = {})
  /\ [][\A p \in Procs :
          StepOf(p) =>
            \/ db' = db
            \/ pc[p] = "commit" /\ outcome[p] = "none" /\ outcome'[p] = "committed"]_vars

\* A booking insert has failed after the Call update, the CallAnalysis, the
\* Customer and the Vehicle were written in the transaction.
C1_Witness ==
  \E p \in Procs :
    /\ pc[p] = "rollback" /\ outcome[p] = "failed"
    /\ tx[p].call /\ tx[p].analyses # {} /\ tx[p].customers # {}
    /\ tx[p].vehicles # {}
    /\ calls[req[p].callId].status # "completed"

\* ------------------------------------------------------------------- C2
\* C2: a processing that commits has created a Booking row for its call
\* exactly when its structured data has booking_confirmed = true and a
\* non-empty customer_name.
C2_BookingIff ==
  \A p \in Procs :
    (pc[p] = "release" /\ outcome[p] = "committed") =>
      ((\E b \in bookings : b.id = p /\ b.call_id = req[p].callId)
         <=> (req[p].sd.booking_confirmed = TRUE
              /\ req[p].sd.customer_name \notin {Undefined, ""}))

\* A confirmed booking without a name has committed with no Booking, after a
\* processing that did create one.
C2_Witness ==
  /\ pc[2] = "release" /\ outcome[2] = "committed"
  /\ req[2].sd.booking_confirmed /\ req[2].sd.customer_name = ""
  /\ \E b \in bookings : b.id = 1
  /\ ~\E b \in bookings : b.id = 2

\* ------------------------------------------------------------------- C3
\* C3: a Booking is created at most once per call: whatever call-ended
\* webhooks were delivered, at most one Booking row references a given Call.
C3_AtMostOneBookingPerCall ==
  \A c \in DOMAIN calls : Cardinality({b \in bookings : b.call_id = c}) <= 1

\* ------------------------------------------------------------------- C4
\* C4: a Call is immutable once completed: no step changes a Call row whose
\* status is 'completed'.
C4_CompletedImmutable ==
  [][\A i \in DOMAIN calls : calls[i].status = "completed" => calls'[i] = calls[i]]_vars

\* ------------------------------------------------------------------- C5
\* C5: the notification POST for a booking is issued only after the
\* transaction that inserted the Booking has committed: every notification
\* the service received names a committed Booking row.
C5_NotifyAfterCommit ==
  \A n \in notifications :
    n.delivered => \E b \in bookings : b.id = n.booking_id

\* ------------------------------------------------------------------- C6
\* The committed Customer rows of a (workshop, phone) pair.
CustomersOfPair(w, phone) ==
  {c \in customers : c.workshop_id = w /\ c.phone = phone}

\* C6: customer dedup, one delivery after the other. When a processing with
\* a confirmed booking and a phone commits, exactly one Customer row exists
\* for its (workshop, phone) pair and its Booking references that row; two
\* Bookings whose customers have the same workshop and the same phone
\* reference the same Customer id, the one the first of them created.
C6_SequentialDedup ==
  /\ \A p \in Procs :
       (/\ pc[p] = "release" /\ outcome[p] = "committed"
        /\ req[p].sd.booking_confirmed /\ Truthy(req[p].sd.customer_name)
        /\ req[p].sd.customer_phone # Undefined) =>
         LET cs == CustomersOfPair(req[p].workshopId, req[p].sd.customer_phone) IN
         /\ Cardinality(cs) = 1
         /\ \A b \in bookings : b.id = p => b.customer_id \in {c.id : c \in cs}
  /\ \A b1, b2 \in bookings :
       \A c1, c2 \in customers :
         (/\ c1.id = b1.customer_id /\ c2.id = b2.customer_id
          /\ c1.workshop_id = c2.workshop_id
          /\ c1.phone = c2.phone /\ c1.phone # Undefined
          /\ b1.id <= b2.id) =>
           b2.customer_id = b1.customer_id /\ b1.customer_id <= b1.id

\* Two deliveries for the same workshop and phone have committed: one
\* Customer row, made by the first, and the second Booking references it.
C6_Witness ==
  /\ \A p \in Procs : outcome[p] = "committed"
  /\ Cardinality(bookings) = 2
  /\ \A b \in bookings : b.customer_id = 1
  /\ customers = {[id |-> 1, workshop_id |-> 1, name |-> "Ann", phone |-> "555"]}

\* ------------------------------------------------------------------- C7
\* C7: customer dedup under concurrency: in every reachable state there is
\* at most one Customer row per (workshop, phone) pair.
C7_OneCustomerPerPair ==
  \A c1, c2 \in customers :
    (c1.workshop_id = c2.workshop_id /\ c1.phone = c2.phone /\ c1.phone # Undefined)
      => c1 = c2

\* ------------------------------------------------------------------- C8
\* Some workshop with status active has the dialed number.
HasActiveWorkshop(n) ==
  \E w \in Workshops : w.number = n /\ w.status = "active"

\* The inbound request inserted one Call row, in state 'initiated', that
\* references an active workshop with the dialed number.
InsertedOneCall(n) ==
  /\ Len(calls') = Len(calls) + 1
  /\ \A i \in DOMAIN calls : calls'[i] = calls[i]
  /\ calls'[Len(calls')].status = "initiated"
  /\ \E w \in Workshops :
       /\ w.number = n /\ w.status = "active"
       /\ calls'[Len(calls')].workshop_id = w.id

OtherTablesUnchanged ==
  UNCHANGED <<analyses, customers, vehicles, bookings, notifications>>

\* C8 as stated: an inbound request inserts exactly one Call row, in state
\* 'initiated' and referencing the matched workshop, if an active workshop
\* has the dialed number; otherwise it answers 404 and inserts no Call row;
\* it changes no other row.
C8_InboundAsStated ==
  [][\A hasBody \in BOOLEAN, n \in DialedNumbers, f \in {"none", "select", "insert"} :
       Inbound(hasBody, n, f) =>
         /\ OtherTablesUnchanged
         /\ IF HasActiveWorkshop(n)
              THEN InsertedOneCall(n)
              ELSE last'.status = 404 /\ calls' = calls]_vars

\* C8 amended: the same, unless the request has no body or one of its
\* statements is refused by the database; then it answers 500 and inserts no
\* Call row.
C8_Inbound ==
  [][\A hasBody \in BOOLEAN, n \in DialedNumbers, f \in {"none", "select", "insert"} :
       Inbound(hasBody, n, f) =>
         /\ OtherTablesUnchanged
         /\ IF ~hasBody \/ f = "select" \/ (f = "insert" /\ HasActiveWorkshop(n))
              THEN last'.status = 500 /\ calls' = calls
            ELSE IF HasActiveWorkshop(n)
              THEN last'.status = 200 /\ InsertedOneCall(n)
              ELSE last'.status = 404 /\ calls' = calls]_vars

\* An inbound request for the active workshop's number has just inserted the
\* second Call row.
C8_Witness ==
  /\ last = Response(200, FALSE)
  /\ Len(calls) = 2
  /\ calls[2] = [workshop_id |-> 1, status |-> "initiated", answered_at |-> Null,
                 ended_at |-> Null, duration_seconds |-> NullId]

\* ------------------------------------------------------------------- C9
\* The positions of a call-ended request inside processCallEnded.
ProcessingPcs ==
  StatementPcs \cup {"getClient", "notify", "rollback", "release"}

\* C9: the 200 acknowledgment of an accepted call-ended webhook is sent
\* before the first database statement of its processing: a request that is
\* inside processCallEnded has been answered, once.
C9_AckBeforeProcessing ==
  \A p \in Procs : pc[p] \in ProcessingPcs => responses[p] = 1

\* A request is about to run its first statement, and another is rolling
\* back: both were answered.
C9_Witness ==
  \E p \in Procs :
    /\ pc[p] = "begin" /\ responses[p] = 1
    /\ \E q \in Procs : outcome[q] = "failed" /\ pc[q] = "done"

\* ------------------------------------------------------------------ C10
\* C10: the call-started webhook always answers 200; when it succeeds for an
\* existing call id, that Call's status is 'in-progress' and its answered
\* timestamp is set; no other Call row and no other table is changed.
C10_CallStarted ==
  [][\A hdr \in WebhookHeaders, m \in BOOLEAN, id \in CallIdsIn, f \in BOOLEAN :
       CallStarted(hdr, m, id, f) =>
         /\ last'.status = 200
         /\ OtherTablesUnchanged
         /\ DOMAIN calls' = DOMAIN calls
         /\ IF ~last'.error /\ id \in DOMAIN calls
              THEN /\ calls'[id].status = "in-progress"
                   /\ calls'[id].answered_at = NowTs
                   /\ \A j \in DOMAIN calls : j # id => calls'[j] = calls[j]
              ELSE ~last'.error \/ calls' = calls]_vars

\* A call-started webhook that failed was answered 200 with an error, with
\* one of two calls started by an earlier webhook and the other untouched.
C10_Witness ==
  /\ last = Response(200, TRUE)
  /\ Len(calls) = 2
  /\ calls[2].status = "in-progress" /\ calls[2].answered_at = NowTs
  /\ calls[1].status = "initiated"

\* ------------------------------------------------------------------ C11
\* C11: in production a call-started or call-ended webhook that fails
\* signature verification is answered 200 with an error field and changes
\* nothing: no Call, CallAnalysis, Customer, Vehicle or Booking row and no
\* notification, in the step that rejects it or later.
C11_RejectedWebhook ==
  /\ [][\A hdr \in WebhookHeaders :
          (production /\ verifyVapiSignature(hdr) # "") =>
            /\ \A m \in BOOLEAN, id \in CallIdsIn, f \in BOOLEAN :
                 CallStarted(hdr, m, id, f) =>
                   /\ last' = Response(200, TRUE)
                   /\ db' = db /\ notifications' = notifications
            /\ \A p \in Procs, body \in PlainBodies :
                 CallEndedAccept(p, hdr, body) =>
                   /\ answer'[p] = Response(200, TRUE)
                   /\ outcome'[p] = "rejected" /\ pc'[p] = "done"
                   /\ db' = db /\ notifications' = notifications
                   /\ tx' = tx]_vars
  /\ [](\A p \in Procs :
          outcome[p] = "rejected" =>
            /\ pc[p] = "done" /\ tx[p] = NoTx /\ RowsOf(p) = {}
            /\ \A n \in notifications : n.booking_id # p)

\* In production a call-ended webhook was rejected and a call-started
\* webhook was answered with an error, with a Call row left as inserted.
C11_Witness ==
  /\ production
  /\ outcome[1] = "rejected" /\ answer[1] = Response(200, TRUE)
  /\ last = Response(200, TRUE)
  /\ Len(calls) = 1 /\ calls[1].status = "initiated"
  /\ analyses = {} /\ bookings = {} /\ notifications = {}

\* ------------------------------------------------------------------ C12
\* The header pair verifyVapiSignature was last called with.
VerifiedHeader == returned.args[1]

\* C12: signature verification succeeds if and only if both headers are
\* present, the timestamp is a number at most 300 seconds away from now, and
\* the signature is the HMAC of timestamp.body under the secret; a request
\* with a missing header fails as missing-header whatever its other fields.
C12_VerifyIff ==
  returned.fn = "verifyVapiSignature" =>
    /\ returned.value = "" <=>
          /\ VerifiedHeader.hasSignature /\ VerifiedHeader.hasTimestamp
          /\ VerifiedHeader.timestamp.numeric
          /\ Abs(Now - VerifiedHeader.timestamp.n) <= 300
          /\ VerifiedHeader.signature =
               Hmac(Secret, SignedPayload(VerifiedHeader.timestamp, "sent"))
    /\ (~VerifiedHeader.hasSignature \/ ~VerifiedHeader.hasTimestamp) =>
          returned.value = "Missing signature or timestamp"

\* ------------------------------------------------------------------ C13
\* C13: a failed notification never fails or rolls back booking creation.
\* The step in which the POST fails leaves the transaction as it was, with
\* its Booking, nothing failed and COMMIT next; and once that transaction
\* has committed the Booking row exists.
C13_NotifyFailureIsolated ==
  /\ [][\A p \in Procs :
          Notify(p, FALSE) =>
            /\ pc'[p] = "commit" /\ outcome'[p] = "none"
            /\ tx'[p] = tx[p] /\ \E b \in tx[p].bookings : b.id = p
            /\ db' = db]_vars
  /\ [](\A n \in notifications :
          (~n.delivered /\ outcome[n.booking_id] = "committed") =>
            \E b \in bookings : b.id = n.booking_id)

\* A processing whose notification failed has committed and is over; its
\* Booking row exists.
C13_Witness ==
  \E p \in Procs :
    /\ pc[p] = "done" /\ outcome[p] = "committed"
    /\ \E n \in notifications : n.booking_id = p /\ ~n.delivered
    /\ \E b \in bookings : b.id = p

\* ------------------------------------------------------------------ C14
\* C14: in every committed state every Booking row references a Call row
\* that exists and a Customer row that exists, also when the webhook named
\* a call id for which no Call row was inserted.
C14_BookingHasCallAndCustomer ==
  \A b \in bookings :
    /\ b.call_id \in DOMAIN calls
    /\ \E c \in customers : c.id = b.customer_id

\* ------------------------------------------------------------------ C15
\* C15: in every committed state a CallAnalysis row of a Call has
\* booking_created = true only if a Booking row exists for the same call.
C15_FlagOnlyWithBooking ==
  \A a \in analyses :
    (a.call_id \in DOMAIN calls /\ a.booking_created) =>
      \E b \in bookings : b.call_id = a.call_id

\* ------------------------------------------------------------------ C16
\* C16: a CallAnalysis is created once per Call: whatever call-ended webhooks
\* were delivered, at most one CallAnalysis row exists for a Call.
C16_OneAnalysisPerCall ==
  \A c \in DOMAIN calls : Cardinality({a \in analyses : a.call_id = c}) <= 1

\* ------------------------------------------------------------------ C17
\* The time of day the claim gives for a time value: 10:00 when it is
\* absent or matches nothing, else the hour and minute of H(:MM)? (am|pm)?
\* in 24-hour form.
ClaimedTimeOfDay(time) ==
  LET m == TimeMatch_MinutesOptional(time.chars) IN
  IF Falsy(time) \/ ~m.found THEN <<10, 0>> ELSE <<Hour24(m), m.minute>>

\* C17: for a recognised date and a time that is absent or a string naming
\* an hour up to 23 and a minute up to 59, parseDateTime gives the time of
\* day the pattern H(:MM)? (am|pm)? resolves to, and 10:00 when the time is
\* absent or matches nothing.
C17_TimeOfDay ==
  (/\ returned.fn = "parseDateTime"
   /\ returned.args[1].kind = "string" /\ ~Falsy(returned.args[1])
   /\ returned.value.valid
   /\ returned.args[2].kind # "number"
   /\ ClaimedTimeOfDay(returned.args[2])[1] <= 23
   /\ ClaimedTimeOfDay(returned.args[2])[2] <= 59) =>
    <<returned.value.hour, returned.value.minute>>
      = ClaimedTimeOfDay(returned.args[2])

\* ------------------------------------------------------------------ C18
\* C18: parseDateTime is total: for every date and time it returns a valid
\* timestamp whose day is the given calendar date, today or tomorrow, whose
\* hour is in 0..23 and whose minute is in 0..59.
C18_ParseTotal ==
  returned.fn = "parseDateTime" =>
    /\ returned.value.valid
    /\ returned.value.hour \in 0..23 /\ returned.value.minute \in 0..59
    /\ IF returned.value.iso # <<>>
         THEN returned.value.plus = 0
         ELSE returned.value.plus \in {0, 1}

\* ------------------------------------------------------------------ C19
\* C19: every call-ended request is given exactly one HTTP response, with
\* status 200, on every path, and the handler never attempts a second
\* response on the same request.
C19_OneResponse ==
  \A p \in Procs :
    /\ responses[p] <= 1
    /\ pc[p] = "done" => (responses[p] = 1 /\ answer[p].status = 200)

====
